---- MODULE Spec2Model ----
(***************************************************************************)
(* Seat booking of the movie booking system: the HTTP handlers book_seat   *)
(* and cancel_booking (movies/views.py), the serializers that validate     *)
(* their input (movies/serializers.py), BookingService (movies/services.py)*)
(* and the Booking / Show models (movies/models.py).                       *)
(*                                                                         *)
(* Storage is the bookings table behind Django's ORM.  Every query of a    *)
(* handler is one step and sees the rows committed so far (READ COMMITTED, *)
(* Django's default on PostgreSQL and MySQL): a row inserted inside        *)
(* transaction.atomic() is invisible to the other requests until the       *)
(* commit, but it already occupies its key in the unique index             *)
(* (show, seat_number, status), so that an insert of the same key waits.   *)
(* select_for_update() locks the rows it returns and nothing else.         *)
(***************************************************************************)
EXTENDS Integers, Sequences, FiniteSets, TLC

VARIABLES
    bookings,   \* the committed rows of the bookings table; a row's id is its index
    pending,    \* pending[p]: the row request p has inserted and not yet committed
    rowlock,    \* rowlock[p]: id of the row request p holds FOR UPDATE, 0 for none
    now,        \* timezone.now()
    pc,         \* pc[p]: where request p stands in its handler
    req,        \* req[p]: the arguments (and loaded instance) of p's current or last call
    outcome,    \* outcome[p]: how p's last call ended
    raced,      \* raced[p]: p's Book overlapped another Book of the same show and seat
    seatInput,  \* the string handed to the seat validators (SeatSpec only)
    seatResult, \* what the seat validators made of seatInput (SeatSpec only)
    avail,      \* avail[p]: the dictionary get_seat_availability is building or has returned
    waited,     \* waited[p]: the clock advanced while p's call was waiting for a lock
    reference,  \* reference[i]: booking_reference of the committed row i
    pendingRef, \* pendingRef[p]: booking_reference of the instance p is saving, 0 for ''
    collide     \* uuid.uuid4() may repeat the first eight characters of an earlier value

vars == <<bookings, pending, rowlock, now, pc, req, outcome, raced, seatInput, seatResult,
          avail, waited, reference, pendingRef, collide>>

(***************************************************************************)
(* Bounds of the model.                                                    *)
(***************************************************************************)
MaxBookings == 2     \* rows the bookings table may hold
MaxNow == 1          \* the clock runs 0..MaxNow
MaxLen == 4          \* longest seat string handed to the validators in SeatSpec
MaxUuids == 2        \* values uuid.uuid4() draws from when it may repeat itself

Procs == {1, 2}                 \* request handlers that run concurrently
Users == {"alice", "bob"}
Shows == {1, 2}

\* Show.date_time and Show.total_seats of the two shows (rows of the shows table)
date_time == <<1, 2>>
total_seats == <<1, 2>>

(***************************************************************************)
(* Seat strings are sequences of characters.                               *)
(***************************************************************************)
UpperLetters == {"A", "B", "Z"}
LowerLetters == {"a", "z"}
\* str.isalpha() is true of every Unicode letter, not only of A-Z
OtherLetters == {"e'", "E'"}
Digits == {"0", "1", "2", "9"}
\* str.isdigit() is true of the superscript digits, which int() rejects
SuperDigits == {"^2"}
Spaces == {" "}

IsAlpha(c) == c \in UpperLetters \cup LowerLetters \cup OtherLetters
IsDigit(c) == c \in Digits \cup SuperDigits
IsSpace(c) == c \in Spaces

UpperChar(c) ==
    CASE c = "a" -> "A"
      [] c = "z" -> "Z"
      [] c = "e'" -> "E'"
      [] OTHER -> c

\* str.upper()
Upper(s) == [i \in 1..Len(s) |-> UpperChar(s[i])]

\* str.strip()
RECURSIVE LStrip(_)
LStrip(s) == IF s # <<>> /\ IsSpace(Head(s)) THEN LStrip(Tail(s)) ELSE s
RECURSIVE RStrip(_)
RStrip(s) ==
    IF s # <<>> /\ IsSpace(s[Len(s)]) THEN RStrip(SubSeq(s, 1, Len(s) - 1)) ELSE s
Strip(s) == RStrip(LStrip(s))

\* str.isdigit(): non-empty and every character a digit
AllDigits(s) == s # <<>> /\ \A i \in 1..Len(s) : IsDigit(s[i])

DigitValue(c) ==
    CASE c = "0" -> 0
      [] c = "1" -> 1
      [] c = "2" -> 2
      [] c = "9" -> 9

\* int(s) of a string of decimal digits; ValueError on anything else
IntParses(s) == s # <<>> /\ \A i \in 1..Len(s) : s[i] \in Digits
RECURSIVE ToInt(_)
ToInt(s) ==
    IF s = <<>> THEN 0
    ELSE 10 * ToInt(SubSeq(s, 1, Len(s) - 1)) + DigitValue(s[Len(s)])


(***************************************************************************)
(* The bookings table and the queries the models make on it.               *)
(***************************************************************************)
Statuses == {"booked", "cancelled"}

NoRow == [user |-> "", show |-> 0, seat_number |-> <<>>, status |-> ""]

Ids == DOMAIN bookings

\* Booking.objects.filter(show=..., seat_number=..., status=...)
RowsWith(sh, seat, st) ==
    {i \in Ids : /\ bookings[i].show = sh
                 /\ bookings[i].seat_number = seat
                 /\ bookings[i].status = st}

\* show.bookings.filter(status='booked')
ActiveRows(sh) == {i \in Ids : bookings[i].show = sh /\ bookings[i].status = "booked"}

available_seats(sh) == total_seats[sh] - Cardinality(ActiveRows(sh))

\* Faulty variant of is_fully_booked: available_seats < 0 in place of <= 0
is_fully_bookedBelowZero(sh) == available_seats(sh) < 0

is_fully_booked(sh) == available_seats(sh) <= 0

\* Faulty variant of can_be_cancelled: date_time >= now in place of date_time > now
can_be_cancelledAtStart(sh, st) == date_time[sh] >= now /\ st = "booked"

\* values_list('seat_number', flat=True) of the rows 1..n whose id is in ids,
\* newest row first (Booking.Meta.ordering is -created_at)
RECURSIVE SeatNumbers(_, _)
SeatNumbers(n, ids) ==
    IF n = 0 THEN <<>>
    ELSE IF n \in ids THEN <<bookings[n].seat_number>> \o SeatNumbers(n - 1, ids)
    ELSE SeatNumbers(n - 1, ids)

\* Faulty variant of get_booked_seat_numbers: without the status='booked' filter
get_booked_seat_numbersAnyStatus(sh) ==
    SeatNumbers(Len(bookings), {i \in Ids : bookings[i].show = sh})

\* Show.get_booked_seat_numbers: list(self.bookings.filter(status='booked')
\* .values_list('seat_number', flat=True))
get_booked_seat_numbers(sh) == SeatNumbers(Len(bookings), ActiveRows(sh))

\* Booking.can_be_cancelled, of a loaded instance
can_be_cancelled(sh, st) == date_time[sh] > now /\ st = "booked"

\* Faulty variant of CleanRejects: clean() without the status='booked' filter
CleanRejectsAnyStatus(sh, seat, self) ==
    {i \in Ids : bookings[i].show = sh /\ bookings[i].seat_number = seat} \ {self} # {}

\* Booking.clean: another booked row of the same show and seat (exclude(id=self.id))
CleanRejects(sh, seat, self) == RowsWith(sh, seat, "booked") \ {self} # {}

\* Model.validate_unique for unique_together (show, seat_number, status)
UniqueRejects(sh, seat, st, self) == RowsWith(sh, seat, st) \ {self} # {}

\* Model.full_clean: clean() and validate_unique()
FullCleanRejects(sh, seat, st, self) ==
    CleanRejects(sh, seat, self) \/ UniqueRejects(sh, seat, st, self)

\* Faulty variant of IndexConflict: a table without the unique index
IndexConflictOff(sh, seat, st, self) == FALSE

\* Faulty variant of IndexWait: an index on (show, status), without the seat
IndexWaitAnySeat(p, sh, seat, st) ==
    \E q \in Procs \ {p} :
        /\ pending[q] # NoRow
        /\ pending[q].show = sh
        /\ pending[q].status = st

\* The unique index on (show, seat_number, status): a committed row holds the key
IndexConflict(sh, seat, st, self) == RowsWith(sh, seat, st) \ {self} # {}

\* ... or a row another request has inserted and not yet committed holds it
IndexWait(p, sh, seat, st) ==
    \E q \in Procs \ {p} :
        /\ pending[q] # NoRow
        /\ pending[q].show = sh
        /\ pending[q].seat_number = seat
        /\ pending[q].status = st

(***************************************************************************)
(* BookingCreateSerializer: what is_valid() answers for the posted string. *)
(***************************************************************************)
SeatMaxLength == 10

\* serializers.CharField of the model field: trims, rejects blank and over-long
FieldValue(raw) == Strip(raw)
FieldRejects(raw) == FieldValue(raw) = <<>> \/ Len(FieldValue(raw)) > SeatMaxLength

\* BookingCreateSerializer.validate_seat_number
FormatRejects(value) ==
    \/ value = <<>>
    \/ Strip(value) = <<>>
    \/ ~(Len(value) >= 2 /\ IsAlpha(value[1]) /\ AllDigits(Tail(value)))

NormalizedSeat(value) == Upper(Strip(value))

\* seat_row < 'A' or seat_row > 'Z'
RowRejects(seat) == seat[1] \notin UpperLetters

\* seat_num < 1 or seat_num > 99
NumberRejects(seat) == ToInt(Tail(seat)) < 1 \/ ToInt(Tail(seat)) > 99

\* Faulty variant of SerializerVerdict: validate() without the seat-taken check
SerializerVerdictNoSeatCheck(sh, seat) ==
    IF date_time[sh] <= now THEN "past_show"
    ELSE IF is_fully_booked(sh) THEN "show_full"
    ELSE IF ~IntParses(Tail(seat)) THEN "server_error"
    ELSE IF RowRejects(seat) THEN "invalid_seat"
    ELSE IF NumberRejects(seat) THEN "invalid_seat"
    ELSE "valid"

\* BookingCreateSerializer.validate, after the field and validate_seat_number
SerializerVerdict(sh, seat) ==
    IF date_time[sh] <= now THEN "past_show"
    ELSE IF RowsWith(sh, seat, "booked") # {} THEN "seat_taken"
    ELSE IF is_fully_booked(sh) THEN "show_full"
    ELSE IF ~IntParses(Tail(seat)) THEN "server_error"
    ELSE IF RowRejects(seat) THEN "invalid_seat"
    ELSE IF NumberRejects(seat) THEN "invalid_seat"
    ELSE "valid"

\* serializer.is_valid() of book_seat for the posted string
BookValidation(sh, raw) ==
    IF FieldRejects(raw) THEN "invalid_seat"
    ELSE IF FormatRejects(FieldValue(raw)) THEN "invalid_seat"
    ELSE SerializerVerdict(sh, NormalizedSeat(FieldValue(raw)))

(***************************************************************************)
(* Requests.                                                               *)
(***************************************************************************)
NoReq == [op |-> "none", user |-> "", show |-> 0, seat |-> <<>>, bid |-> 0, status |-> ""]

BookPcs == {"bk_check", "bk_select", "bk_taken", "bk_clean", "bk_insert", "bk_commit"}
CancelPcs == {"cn_service", "cn_update"}

\* The call of p returns with outcome o (its transaction rolled back or committed)
Return(p, r, o) ==
    /\ pc' = [pc EXCEPT ![p] = "idle"]
    /\ req' = [req EXCEPT ![p] = r]
    /\ outcome' = [outcome EXCEPT ![p] = o]

Continue(p, r, to) ==
    /\ pc' = [pc EXCEPT ![p] = to]
    /\ req' = [req EXCEPT ![p] = r]
    /\ outcome' = [outcome EXCEPT ![p] = "running"]

NoAvail == [total_seats |-> 0, available_seats |-> 0, booked_seats |-> <<>>,
            is_fully_booked |-> FALSE]

NoResult == [serializer |-> "none", service |-> "none", seat |-> <<>>]

\* str(uuid.uuid4())[:8].upper() for the instance request p saves.  A number
\* stands for one string of eight hex digits, 0 for ''.  When uuid4 may repeat
\* itself the value is any of 1..MaxUuids; otherwise it is a value no other
\* instance gets, written -p while p holds the instance in memory
Uuid4(p) == IF collide THEN 1..MaxUuids ELSE {-p}

\* The booking_reference r as stored in row i: a value no other instance got is
\* written MaxUuids + i from then on, any other value is itself
RowRef(r, i) == IF r < 0 THEN MaxUuids + i ELSE r

\* Faulty variant of RefConflict: booking_reference without unique=True
RefConflictOff(r, self) == FALSE

\* booking_reference is unique: a committed row other than self carries r
RefConflict(r, self) ==
    \E i \in (1..Len(reference)) \ {self} : reference[i] = r

\* The unique index of booking_reference holds r for an uncommitted row of
\* another request
RefWait(p, r) ==
    \E q \in Procs \ {p} : pending[q] # NoRow /\ pendingRef[q] = r

Init ==
    /\ bookings = <<>>
    /\ pending = [p \in Procs |-> NoRow]
    /\ rowlock = [p \in Procs |-> 0]
    /\ now = 0
    /\ pc = [p \in Procs |-> "idle"]
    /\ req = [p \in Procs |-> NoReq]
    /\ outcome = [p \in Procs |-> "none"]
    /\ raced = [p \in Procs |-> FALSE]
    /\ seatInput = <<>>
    /\ seatResult = NoResult
    /\ avail = [p \in Procs |-> NoAvail]
    /\ waited = [p \in Procs |-> FALSE]
    /\ reference = <<>>
    /\ pendingRef = [p \in Procs |-> 0]
    /\ collide = FALSE

\* The next query of p's call waits for a lock another request holds: the row
\* select_for_update() wants, the key of the unique index, or the row to UPDATE
Blocked(p) ==
    \/ /\ pc[p] = "bk_select"
       /\ RowsWith(req[p].show, req[p].seat, "booked") # {}
       /\ \A i \in RowsWith(req[p].show, req[p].seat, "booked") :
              \E q \in Procs \ {p} : rowlock[q] = i
    \/ /\ pc[p] = "bk_insert"
       /\ \/ IndexWait(p, req[p].show, req[p].seat, "booked")
          \/ RefWait(p, pendingRef[p])
    \/ /\ pc[p] = "cn_update"
       /\ \E q \in Procs \ {p} : rowlock[q] = req[p].bid

\* timezone.now() advances
Tick ==
    /\ now < MaxNow
    /\ now' = now + 1
    /\ waited' = [p \in Procs |-> waited[p] \/ Blocked(p)]
    /\ UNCHANGED <<bookings, pending, rowlock, pc, req, outcome, raced, seatInput, seatResult, avail,
                   reference, pendingRef, collide>>

\* Requests whose Book of (sh, seat) is under way
Rivals(p, sh, seat) ==
    {q \in Procs \ {p} : pc[q] \in BookPcs /\ req[q].show = sh /\ req[q].seat = seat}

\* book_seat: get the show, serializer.is_valid()
BookRequest(p, u, sh, raw) ==
    /\ pc[p] = "idle"
    /\ Len(bookings) + Cardinality({q \in Procs : pc[q] \in BookPcs}) < MaxBookings
    /\ LET v == BookValidation(sh, raw)
           seat == NormalizedSeat(FieldValue(raw))
           r == [NoReq EXCEPT !.op = "book", !.user = u, !.show = sh,
                              !.seat = IF v = "valid" THEN seat ELSE raw]
       IN  IF v = "valid"
           THEN /\ Continue(p, r, "bk_check")
                /\ raced' = [q \in Procs |->
                               IF q = p THEN Rivals(p, sh, seat) # {}
                               ELSE raced[q] \/ q \in Rivals(p, sh, seat)]
           ELSE /\ Return(p, r, v)
                /\ raced' = [raced EXCEPT ![p] = FALSE]
    /\ waited' = [waited EXCEPT ![p] = FALSE]
    /\ UNCHANGED <<bookings, pending, rowlock, now, seatInput, seatResult, avail,
                   reference, pendingRef, collide>>

\* Faulty variant of ServiceVerdict: date_time < now in place of date_time <= now
ServiceVerdictLate(sh) ==
    IF date_time[sh] < now THEN "past_show"
    ELSE IF is_fully_booked(sh) THEN "show_full"
    ELSE "pass"

\* create_booking: the show's time, then is_fully_booked
ServiceVerdict(sh) ==
    IF date_time[sh] <= now THEN "past_show"
    ELSE IF is_fully_booked(sh) THEN "show_full"
    ELSE "pass"

BookCheck(p) ==
    /\ pc[p] = "bk_check"
    /\ IF ServiceVerdict(req[p].show) = "pass"
       THEN Continue(p, req[p], "bk_select")
       ELSE Return(p, req[p], ServiceVerdict(req[p].show))
    /\ UNCHANGED <<bookings, pending, rowlock, now, raced, seatInput, seatResult, avail, waited,
                   reference, pendingRef, collide>>

\* create_booking: select_for_update() of the seat's booked row
BookSelect(p) ==
    /\ pc[p] = "bk_select"
    /\ LET found == RowsWith(req[p].show, req[p].seat, "booked")
       IN  IF found = {}
           THEN Continue(p, req[p], "bk_clean") /\ UNCHANGED rowlock
           ELSE \E i \in found :
                  /\ \A q \in Procs \ {p} : rowlock[q] # i
                  /\ rowlock' = [rowlock EXCEPT ![p] = i]
                  /\ Continue(p, req[p], "bk_taken")
    /\ UNCHANGED <<bookings, pending, now, raced, seatInput, seatResult, avail, waited,
                   reference, pendingRef, collide>>

\* Faulty variant of BookTaken: the call returns and the row stays locked
BookTakenKeepsLock(p) ==
    /\ pc[p] = "bk_taken"
    /\ Return(p, req[p], "seat_taken")
    /\ UNCHANGED <<bookings, pending, rowlock, now, raced, seatInput, seatResult, avail, waited,
                   reference, pendingRef, collide>>

\* create_booking: the seat has a booked row; the transaction rolls back
BookTaken(p) ==
    /\ pc[p] = "bk_taken"
    /\ rowlock' = [rowlock EXCEPT ![p] = 0]
    /\ Return(p, req[p], "seat_taken")
    /\ UNCHANGED <<bookings, pending, now, raced, seatInput, seatResult, avail, waited,
                   reference, pendingRef, collide>>

\* create_booking: booking.full_clean(), and again in booking.save()
BookClean(p) ==
    /\ pc[p] = "bk_clean"
    /\ IF FullCleanRejects(req[p].show, req[p].seat, "booked", 0)
       THEN Return(p, req[p], "invalid_data") /\ UNCHANGED pendingRef
       ELSE \E r \in Uuid4(p) :
                IF RefConflict(r, 0)
                THEN Return(p, req[p], "invalid_data") /\ UNCHANGED pendingRef
                ELSE /\ pendingRef' = [pendingRef EXCEPT ![p] = r]
                     /\ Continue(p, req[p], "bk_insert")
    /\ UNCHANGED <<bookings, pending, rowlock, now, raced, seatInput, seatResult, avail,
                   waited, reference, collide>>

\* Faulty variant of NewBooking: the row built with the wrong status
NewBookingCancelled(u, sh, seat) ==
    [user |-> u, show |-> sh, seat_number |-> Upper(seat), status |-> "cancelled"]

\* create_booking: Booking(user=user, show=show,
\* seat_number=seat_number.upper(), status='booked')
NewBooking(u, sh, seat) ==
    [user |-> u, show |-> sh, seat_number |-> Upper(seat), status |-> "booked"]

\* booking.save(): the INSERT, checked by the unique index
BookInsert(p) ==
    /\ pc[p] = "bk_insert"
    /\ ~IndexWait(p, req[p].show, req[p].seat, "booked")
    /\ ~RefWait(p, pendingRef[p])
    /\ IF \/ IndexConflict(req[p].show, req[p].seat, "booked", 0)
          \/ RefConflict(pendingRef[p], 0)
       THEN /\ Return(p, req[p], "failed")
            /\ pendingRef' = [pendingRef EXCEPT ![p] = 0]
            /\ UNCHANGED pending
       ELSE /\ pending' = [pending EXCEPT ![p] =
                              NewBooking(req[p].user, req[p].show, req[p].seat)]
            /\ Continue(p, req[p], "bk_commit")
            /\ UNCHANGED pendingRef
    /\ UNCHANGED <<bookings, rowlock, now, raced, seatInput, seatResult, avail, waited,
                   reference, collide>>

\* book_seat: the transaction commits and the booking is returned
BookCommit(p) ==
    /\ pc[p] = "bk_commit"
    /\ bookings' = Append(bookings, pending[p])
    /\ reference' = Append(reference, RowRef(pendingRef[p], Len(bookings) + 1))
    /\ pending' = [pending EXCEPT ![p] = NoRow]
    /\ pendingRef' = [pendingRef EXCEPT ![p] = 0]
    /\ Return(p, [req[p] EXCEPT !.bid = Len(bookings) + 1, !.status = "booked"], "ok")
    /\ UNCHANGED <<rowlock, now, raced, seatInput, seatResult, avail, waited, collide>>

\* Faulty variant of CancelVerdict: the owner check made after the other checks
CancelVerdictOwnerLast(u, b) ==
    IF b.status = "cancelled" THEN "already_cancelled"
    ELSE IF ~can_be_cancelled(b.show, b.status) THEN "past_show"
    ELSE IF b.user # u THEN "unauthorized"
    ELSE "pass"

\* cancel_booking (view): the owner check, then BookingCancelSerializer.validate
CancelVerdict(u, b) ==
    IF b.user # u THEN "unauthorized"
    ELSE IF b.status = "cancelled" THEN "already_cancelled"
    ELSE IF ~can_be_cancelled(b.show, b.status) THEN "past_show"
    ELSE "pass"

\* cancel_booking (view): load the booking, check it, hand it to the service
CancelRequest(p, u, bid) ==
    /\ pc[p] = "idle"
    /\ bid \in Ids
    /\ LET b == bookings[bid]
           r == [op |-> "cancel", user |-> u, show |-> b.show, seat |-> b.seat_number,
                 bid |-> bid, status |-> b.status]
       IN  IF CancelVerdict(u, b) = "pass"
           THEN Continue(p, r, "cn_service")
           ELSE Return(p, r, CancelVerdict(u, b))
    /\ raced' = [raced EXCEPT ![p] = FALSE]
    /\ waited' = [waited EXCEPT ![p] = FALSE]
    /\ UNCHANGED <<bookings, pending, rowlock, now, seatInput, seatResult, avail,
                   reference, pendingRef, collide>>

\* Faulty variant of cancel: the row deleted instead of marked
cancelDeletes(bid) ==
    [i \in 1..(Len(bookings) - 1) |-> IF i < bid THEN bookings[i] ELSE bookings[i + 1]]

\* Faulty variant of cancel: the status switched to the other value
cancelToggles(bid) ==
    [bookings EXCEPT ![bid].status = IF @ = "booked" THEN "cancelled" ELSE "booked"]

\* Booking.cancel: the table after self.status = 'cancelled'; self.save()
cancel(bid) == [bookings EXCEPT ![bid].status = "cancelled"]

\* Faulty variant of CancelService: the status written before save() validates it
CancelServiceWritesFirst(p) ==
    /\ pc[p] = "cn_service"
    /\ IF req[p].status = "cancelled"
       THEN Return(p, req[p], "already_cancelled") /\ UNCHANGED bookings
       ELSE IF ~can_be_cancelled(req[p].show, req[p].status)
            THEN Return(p, req[p], "past_show") /\ UNCHANGED bookings
       ELSE IF FullCleanRejects(req[p].show, req[p].seat, "cancelled", req[p].bid)
            THEN Return(p, req[p], "failed") /\ bookings' = cancel(req[p].bid)
       ELSE Continue(p, req[p], "cn_update") /\ UNCHANGED bookings
    /\ UNCHANGED <<pending, rowlock, now, raced, seatInput, seatResult, avail, waited,
                   reference, pendingRef, collide>>

\* BookingService.cancel_booking, Booking.cancel and the full_clean() of save()
CancelService(p) ==
    /\ pc[p] = "cn_service"
    /\ IF req[p].status = "cancelled" THEN Return(p, req[p], "already_cancelled")
       ELSE IF ~can_be_cancelled(req[p].show, req[p].status)
            THEN Return(p, req[p], "past_show")
       ELSE IF FullCleanRejects(req[p].show, req[p].seat, "cancelled", req[p].bid)
            THEN Return(p, req[p], "failed")
       ELSE Continue(p, req[p], "cn_update")
    /\ UNCHANGED <<bookings, pending, rowlock, now, raced, seatInput, seatResult, avail, waited,
                   reference, pendingRef, collide>>

\* Booking.save(): the UPDATE of the row, checked by the unique index
CancelUpdate(p) ==
    /\ pc[p] = "cn_update"
    /\ \A q \in Procs \ {p} : rowlock[q] # req[p].bid
    /\ IF IndexConflict(req[p].show, req[p].seat, "cancelled", req[p].bid)
       THEN Return(p, req[p], "failed") /\ UNCHANGED bookings
       ELSE /\ bookings' = cancel(req[p].bid)
            /\ Return(p, [req[p] EXCEPT !.status = "cancelled"], "ok")
    /\ UNCHANGED <<pending, rowlock, now, raced, seatInput, seatResult, avail, waited,
                   reference, pendingRef, collide>>

SavePcs == {"sv_insert"}

\* Booking(user=u, show=sh, seat_number=seat).save() called directly, not through
\* create_booking: the booking_reference it generates and its full_clean()
SaveRequest(p, u, sh, seat) ==
    /\ pc[p] = "idle"
    /\ Len(bookings) + Cardinality({q \in Procs : pc[q] \in BookPcs}) < MaxBookings
    /\ LET r == [NoReq EXCEPT !.op = "save", !.user = u, !.show = sh, !.seat = seat]
       IN  \E ref \in Uuid4(p) :
               IF FullCleanRejects(sh, seat, "booked", 0) \/ RefConflict(ref, 0)
               THEN Return(p, r, "invalid_data") /\ UNCHANGED pendingRef
               ELSE /\ pendingRef' = [pendingRef EXCEPT ![p] = ref]
                    /\ Continue(p, r, "sv_insert")
    /\ raced' = [raced EXCEPT ![p] = FALSE]
    /\ waited' = [waited EXCEPT ![p] = FALSE]
    /\ UNCHANGED <<bookings, pending, rowlock, now, seatInput, seatResult, avail,
                   reference, collide>>

\* super().save(): the INSERT, checked by the unique index and committed at once
\* (no transaction is open)
SaveInsert(p) ==
    /\ pc[p] = "sv_insert"
    /\ ~IndexWait(p, req[p].show, req[p].seat, "booked")
    /\ ~RefWait(p, pendingRef[p])
    /\ pendingRef' = [pendingRef EXCEPT ![p] = 0]
    /\ IF \/ IndexConflict(req[p].show, req[p].seat, "booked", 0)
          \/ RefConflict(pendingRef[p], 0)
       THEN Return(p, req[p], "failed") /\ UNCHANGED <<bookings, reference>>
       ELSE /\ bookings' = Append(bookings,
                                  [user |-> req[p].user, show |-> req[p].show,
                                   seat_number |-> req[p].seat, status |-> "booked"])
            /\ reference' = Append(reference, RowRef(pendingRef[p], Len(bookings) + 1))
            /\ Return(p, [req[p] EXCEPT !.bid = Len(bookings) + 1, !.status = "booked"], "ok")
    /\ UNCHANGED <<pending, rowlock, now, raced, seatInput, seatResult, avail, waited,
                   collide>>

\* Seat keys handed to Booking(...) directly
SavedSeats == { <<"A", "1">>, <<"B", "2">> }

\* A direct save by request p for a show in Ss
DirectSave(p, Ss) ==
    \/ \E u \in Users, sh \in Ss, seat \in SavedSeats : SaveRequest(p, u, sh, seat)
    \/ SaveInsert(p)

AvailPcs == {"av_count", "av_full"}

\* get_seat_availability: show.get_booked_seat_numbers() and show.total_seats
AvailRequest(p, sh) ==
    /\ pc[p] = "idle"
    /\ avail' = [avail EXCEPT ![p] =
                   [NoAvail EXCEPT !.booked_seats = get_booked_seat_numbers(sh),
                                   !.total_seats = total_seats[sh]]]
    /\ Continue(p, [NoReq EXCEPT !.op = "avail", !.show = sh], "av_count")
    /\ raced' = [raced EXCEPT ![p] = FALSE]
    /\ waited' = [waited EXCEPT ![p] = FALSE]
    /\ UNCHANGED <<bookings, pending, rowlock, now, seatInput, seatResult,
                   reference, pendingRef, collide>>

\* get_seat_availability: show.available_seats, a count() query of its own
AvailCount(p) ==
    /\ pc[p] = "av_count"
    /\ avail' = [avail EXCEPT ![p].available_seats = available_seats(req[p].show)]
    /\ Continue(p, req[p], "av_full")
    /\ UNCHANGED <<bookings, pending, rowlock, now, raced, seatInput, seatResult, waited,
                   reference, pendingRef, collide>>

\* get_seat_availability: show.is_fully_booked, which counts again; the
\* dictionary is returned
AvailFull(p) ==
    /\ pc[p] = "av_full"
    /\ avail' = [avail EXCEPT ![p].is_fully_booked = is_fully_booked(req[p].show)]
    /\ Return(p, req[p], "ok")
    /\ UNCHANGED <<bookings, pending, rowlock, now, raced, seatInput, seatResult, waited,
                   reference, pendingRef, collide>>

\* get_seat_availability called by request p for a show in Ss
Availability(p, Ss) ==
    \/ \E sh \in Ss : AvailRequest(p, sh)
    \/ AvailCount(p)
    \/ AvailFull(p)

\* The status code of the response of book_seat and cancel_booking: an
\* exception that escapes the view (the ValueError of int() in the serializer)
\* is answered 500
HttpStatus(op, o) ==
    CASE o = "server_error" -> 500
      [] o = "unauthorized" -> 403
      [] o = "ok" /\ op = "book" -> 201
      [] o = "ok" /\ op = "cancel" -> 200
      [] OTHER -> 400

\* The handlers of the requests in Ps, for shows in Ss and posted seat strings in Raws
Handlers(Ps, Ss, Raws) ==
    \E p \in Ps :
        \/ \E u \in Users, sh \in Ss, raw \in Raws : BookRequest(p, u, sh, raw)
        \/ BookCheck(p)
        \/ BookSelect(p)
        \/ BookClean(p)
        \/ BookInsert(p)
        \/ BookCommit(p)
        \/ \E u \in Users, bid \in 1..MaxBookings : CancelRequest(p, u, bid)
        \/ CancelService(p)
        \/ CancelUpdate(p)

\* Seat strings posted to book_seat
RawSeats == { <<"A", "1">>, <<"a", "1">>, <<"B", "2">> }
SeqRawSeats == { <<"A", "1">>, <<"a", "1">>, <<"A", "0", "1">>, <<"1", "A">> }

\* Concurrent requests for the seats of show 1
Next ==
    \/ Tick
    \/ Handlers(Procs, {1}, RawSeats)
    \/ \E p \in Procs : BookTaken(p)

Spec == Init /\ [][Next]_vars

\* One request at a time, for both shows
SeqNext ==
    \/ Tick
    \/ Handlers({1}, Shows, SeqRawSeats)

SeqSpec == Init /\ [][SeqNext]_vars

\* Request 2 asks for the availability of show 2 while request 1 books and
\* cancels its seats
AvNext ==
    \/ Handlers({1}, {2}, RawSeats)
    \/ Availability(2, {2})

AvSpec == Init /\ [][AvNext]_vars

\* Strings posted to book_seat as seat_number: lower case, padded with blanks,
\* with a leading zero, with a superscript digit
PostedSeats ==
    { <<"a", "1">>, <<" ", "B", "2">>, <<"z", "9", "9">>, <<"A", "0", "1">>, <<"A", "^2">> }

PostInit ==
    /\ bookings = <<>>
    /\ pending = [p \in Procs |-> NoRow]
    /\ rowlock = [p \in Procs |-> 0]
    /\ now = 0
    /\ pc = [p \in Procs |-> "idle"]
    /\ req = [p \in Procs |-> NoReq]
    /\ outcome = [p \in Procs |-> "none"]
    /\ raced = [p \in Procs |-> FALSE]
    /\ seatInput \in PostedSeats
    /\ seatResult = NoResult
    /\ avail = [p \in Procs |-> NoAvail]
    /\ waited = [p \in Procs |-> FALSE]
    /\ reference = <<>>
    /\ pendingRef = [p \in Procs |-> 0]
    /\ collide = FALSE

\* One request at a time, every Book posting the string seatInput
PostNext ==
    \/ Tick
    \/ Handlers({1}, Shows, {seatInput})

PostSpec == PostInit /\ [][PostNext]_vars

\* Request 2 saves bookings of show 2 directly while request 1 books and cancels
\* its seats through the views
DirectNext ==
    \/ Handlers({1}, {2}, RawSeats)
    \/ BookTaken(1)
    \/ DirectSave(2, {2})

DirectSpec == Init /\ [][DirectNext]_vars

\* Concurrent requests for the seats of show 2, which has room for two
ConcNext ==
    \/ Tick
    \/ Handlers(Procs, {2}, RawSeats)
    \/ \E p \in Procs : BookTaken(p)

ConcSpec == Init /\ [][ConcNext]_vars

\* Book and Cancel requests for the seats of show 2 next to direct saves, while
\* uuid.uuid4() may repeat the first eight characters of a value it returned before
RefInit ==
    /\ bookings = <<>>
    /\ pending = [p \in Procs |-> NoRow]
    /\ rowlock = [p \in Procs |-> 0]
    /\ now = 0
    /\ pc = [p \in Procs |-> "idle"]
    /\ req = [p \in Procs |-> NoReq]
    /\ outcome = [p \in Procs |-> "none"]
    /\ raced = [p \in Procs |-> FALSE]
    /\ seatInput = <<>>
    /\ seatResult = NoResult
    /\ avail = [p \in Procs |-> NoAvail]
    /\ waited = [p \in Procs |-> FALSE]
    /\ reference = <<>>
    /\ pendingRef = [p \in Procs |-> 0]
    /\ collide = TRUE

\* Seat strings posted to book_seat in RefSpec
RefSeats == { <<"A", "1">>, <<"B", "2">> }

RefNext ==
    \/ Handlers({1}, {2}, RefSeats)
    \/ BookTaken(1)
    \/ DirectSave(2, {2})

RefSpec == RefInit /\ [][RefNext]_vars

(***************************************************************************)
(* The seat validators on their own: every string over SeatAlphabet of at  *)
(* most MaxLen characters, posted for show 2 while it is empty and ahead.  *)
(***************************************************************************)
SeatAlphabet == {"A", "a", "e'", "0", "1", "9", "^2", " "}

SeatStrings == UNION {[1..n -> SeatAlphabet] : n \in 0..MaxLen}

\* BookingService.validate_seat_number(seat_number), without a show
ServiceSeatVerdict(raw) ==
    IF raw = <<>> \/ Strip(raw) = <<>> THEN "invalid_seat"
    ELSE LET seat == Upper(Strip(raw))
         IN  IF ~(Len(seat) >= 2 /\ IsAlpha(seat[1]) /\ AllDigits(Tail(seat)))
                 THEN "invalid_seat"
             ELSE IF RowRejects(seat) THEN "invalid_seat"
             ELSE IF ~IntParses(Tail(seat)) THEN "invalid_seat"
             ELSE IF NumberRejects(seat) THEN "invalid_seat"
             ELSE "valid"

SeatInit ==
    /\ bookings = <<>>
    /\ pending = [p \in Procs |-> NoRow]
    /\ rowlock = [p \in Procs |-> 0]
    /\ now = 0
    /\ pc = [p \in Procs |-> "idle"]
    /\ req = [p \in Procs |-> NoReq]
    /\ outcome = [p \in Procs |-> "none"]
    /\ raced = [p \in Procs |-> FALSE]
    /\ seatInput \in SeatStrings
    /\ seatResult = NoResult
    /\ avail = [p \in Procs |-> NoAvail]
    /\ waited = [p \in Procs |-> FALSE]
    /\ reference = <<>>
    /\ pendingRef = [p \in Procs |-> 0]
    /\ collide = FALSE

\* The answers of the serializer of book_seat and of the service's validator
ValidateSeat ==
    /\ seatResult = NoResult
    /\ avail = [p \in Procs |-> NoAvail]
    /\ waited = [p \in Procs |-> FALSE]
    /\ seatResult' =
         [serializer |-> BookValidation(2, seatInput),
          service |-> ServiceSeatVerdict(seatInput),
          seat |-> IF BookValidation(2, seatInput) = "valid"
                   THEN NormalizedSeat(FieldValue(seatInput)) ELSE <<>>]
    /\ UNCHANGED <<bookings, pending, rowlock, now, pc, req, outcome, raced, seatInput, avail, waited,
                   reference, pendingRef, collide>>

SeatNext == ValidateSeat

SeatSpec == SeatInit /\ [][SeatNext]_vars

(***************************************************************************)
(* Properties.                                                             *)
(***************************************************************************)
Seats == {bookings[i].seat_number : i \in Ids}

Returned(p, op) == pc[p] = "idle" /\ req[p].op = op

\* C1: every (show, seat) has at most one booking whose status is 'booked',
\* whatever Book and Cancel calls have run and however they interleaved.
C1_AtMostOneActive ==
    \A sh \in Shows, seat \in Seats : Cardinality(RowsWith(sh, seat, "booked")) <= 1

\* C1 witness: two Books raced for one seat; one holds it, the unique index
\* refused the other.
C1_Witness ==
    \E p \in Procs, q \in Procs :
        /\ p # q
        /\ Returned(p, "book") /\ outcome[p] = "ok"
        /\ Returned(q, "book") /\ outcome[q] = "failed"
        /\ req[p].show = req[q].show /\ req[p].seat = req[q].seat
        /\ bookings[req[p].bid].status = "booked"

\* C2 (as claimed): of the Book calls that ran concurrently for one free seat of
\* a show still ahead, exactly one returned a booking and every other one failed
\* with the seat-taken or the show-full error.
C2_LosersGetSeatTaken ==
    \A p \in Procs, q \in Procs :
        ( /\ p # q
          /\ Returned(p, "book") /\ Returned(q, "book")
          /\ raced[p] /\ raced[q]
          /\ req[p].show = req[q].show /\ req[p].seat = req[q].seat
          /\ date_time[req[p].show] > now )
        => \/ outcome[p] = "ok" /\ outcome[q] \in {"seat_taken", "show_full"}
           \/ outcome[q] = "ok" /\ outcome[p] \in {"seat_taken", "show_full"}

\* C3 (as claimed): the number of seats of a show with a 'booked' booking never
\* exceeds the show's total_seats.
C3_CapacityInvariant ==
    \A sh \in Shows : Cardinality(ActiveRows(sh)) <= total_seats[sh]

\* The table as it was when the call that p has returned from was made
\* (a call changes the table only by its own commit when requests run in turn)
Before(p) ==
    IF outcome[p] # "ok" THEN bookings
    ELSE IF req[p].op = "book" THEN SubSeq(bookings, 1, Len(bookings) - 1)
    ELSE [bookings EXCEPT ![req[p].bid].status = "booked"]

Row(u, sh, seat, st) == [user |-> u, show |-> sh, seat_number |-> seat, status |-> st]

IsCall(p, op, u, sh, seat) ==
    /\ Returned(p, op)
    /\ req[p].user = u /\ req[p].show = sh /\ req[p].seat = seat

SeatA1 == <<"A", "1">>

\* C4: on show 1 (capacity 1) while it is still ahead, for users a # b: a books
\* "A1" on the empty show and succeeds; b then books "A1" and gets seat-taken;
\* a cancels and succeeds; b books "A1" again and succeeds.
C4_Scenario ==
    \A a \in Users : \A b \in Users \ {a} :
        (pc[1] = "idle" /\ date_time[1] > now) =>
          /\ (Before(1) = <<>> /\ IsCall(1, "book", a, 1, SeatA1))
                => outcome[1] = "ok" /\ bookings = <<Row(a, 1, SeatA1, "booked")>>
          /\ (Before(1) = <<Row(a, 1, SeatA1, "booked")>> /\ IsCall(1, "book", b, 1, SeatA1))
                => outcome[1] = "seat_taken" /\ bookings = Before(1)
          /\ (Before(1) = <<Row(a, 1, SeatA1, "booked")>> /\ IsCall(1, "cancel", a, 1, SeatA1))
                => outcome[1] = "ok" /\ bookings = <<Row(a, 1, SeatA1, "cancelled")>>
          /\ (Before(1) = <<Row(a, 1, SeatA1, "cancelled")>> /\ IsCall(1, "book", b, 1, SeatA1))
                => /\ outcome[1] = "ok"
                   /\ bookings = <<Row(a, 1, SeatA1, "cancelled"), Row(b, 1, SeatA1, "booked")>>

\* C4 witness: the end of the scenario, b holding the seat a gave up.
C4_Witness ==
    /\ date_time[1] > now
    /\ IsCall(1, "book", "bob", 1, SeatA1) /\ outcome[1] = "ok"
    /\ bookings = <<Row("alice", 1, SeatA1, "cancelled"), Row("bob", 1, SeatA1, "booked")>>

OwnerCancel(p) ==
    /\ Returned(p, "cancel")
    /\ req[p].user = bookings[req[p].bid].user
    /\ date_time[req[p].show] > now

\* C5 (as claimed): a Cancel by the owner of a booking that is 'booked', made and
\* finished before the show starts, succeeds and leaves the booking 'cancelled'.
C5_OwnerCancelSucceeds ==
    \A p \in Procs :
        (OwnerCancel(p) /\ Before(p)[req[p].bid].status = "booked")
        => outcome[p] = "ok" /\ bookings[req[p].bid].status = "cancelled"

\* C6 (as claimed): the table takes any number of 'cancelled' rows of one
\* (show, seat): cancelling the seat's booking while an earlier booking of the
\* seat is already 'cancelled' is accepted and leaves two 'cancelled' rows.
C6_ManyCancelledRows ==
    \A p \in Procs :
        ( /\ OwnerCancel(p)
          /\ Before(p)[req[p].bid].status = "booked"
          /\ RowsWith(req[p].show, req[p].seat, "cancelled") \ {req[p].bid} # {} )
        => Cardinality(RowsWith(req[p].show, req[p].seat, "cancelled")) >= 2

\* C7 (as claimed): of the Cancel calls the owner makes on one booking before the
\* show starts, the one that finds it 'booked' succeeds and leaves it 'cancelled',
\* and each later one gets already-cancelled and changes nothing.
C7_CancelTwice ==
    \A p \in Procs :
        OwnerCancel(p) =>
            /\ Before(p)[req[p].bid].status = "booked" => outcome[p] = "ok"
            /\ Before(p)[req[p].bid].status = "cancelled"
                   => outcome[p] = "already_cancelled" /\ bookings = Before(p)
            /\ bookings[req[p].bid].status = "cancelled"

\* p takes a step of its handler
Moves(p) == <<pc[p], req[p], outcome[p]>> # <<pc'[p], req'[p], outcome'[p]>>

\* p's handler is entered for a call op (the step that loads and validates)
Enters(p, op) == pc[p] = "idle" /\ Moves(p) /\ req'[p].op = op

\* C8: a Cancel by a user who does not own the booking returns the unauthorized
\* error at once, whatever the booking's status and the show's time (the owner
\* check comes before the already-cancelled and past-show checks), and changes
\* no row of the table.
C8_NonOwnerCancel ==
    [][\A p \in Procs :
         (Enters(p, "cancel") /\ req'[p].user # bookings[req'[p].bid].user)
         => /\ pc'[p] = "idle"
            /\ outcome'[p] = "unauthorized"
            /\ bookings' = bookings
            /\ pending' = pending]_vars

\* C8 witness: a user other than the owner was refused the Cancel of a booking
\* that is already 'cancelled' and whose show has started.
C8_Witness ==
    \E p \in Procs :
        /\ Returned(p, "cancel") /\ outcome[p] = "unauthorized"
        /\ req[p].user # bookings[req[p].bid].user
        /\ bookings[req[p].bid].status = "cancelled"
        /\ date_time[req[p].show] <= now

\* The form of seat string C9 names, case and surrounding blanks aside: one
\* letter A-Z, then one or two digits that form a number in 1..99
ClaimedSeat(s) ==
    /\ Len(s) \in {2, 3}
    /\ s[1] \in UpperLetters
    /\ \A i \in 2..Len(s) : s[i] \in Digits
    /\ ToInt(Tail(s)) >= 1 /\ ToInt(Tail(s)) <= 99

\* C9 (as claimed): book_seat accepts a seat string if and only if it is one
\* letter A-Z followed by one or two digits forming a number in 1..99.
C9_SeatFormat ==
    seatResult # NoResult =>
        (seatResult.serializer = "valid" <=> ClaimedSeat(Upper(Strip(seatInput))))

\* C10: a Book whose show has date_time <= now when the serializer or the service
\* looks at the clock fails and adds no row, with the past-show error unless the
\* string was already refused by the seat field; and no Book is refused as past
\* while date_time > now.
C10_PastShow ==
    [][\A p \in Procs :
         /\ (Enters(p, "book") /\ date_time[req'[p].show] <= now)
            => /\ pc'[p] = "idle"
               /\ outcome'[p] = IF \/ FieldRejects(req'[p].seat)
                                   \/ FormatRejects(FieldValue(req'[p].seat))
                                THEN "invalid_seat" ELSE "past_show"
               /\ bookings' = bookings /\ pending' = pending
         /\ (pc[p] = "bk_check" /\ Moves(p) /\ date_time[req[p].show] <= now)
            => /\ pc'[p] = "idle"
               /\ outcome'[p] = "past_show"
               /\ bookings' = bookings /\ pending' = pending
         /\ (Moves(p) /\ req'[p].op = "book" /\ outcome'[p] = "past_show")
            => date_time[req'[p].show] <= now]_vars

\* C10 witness: a Book refused as past at the very time the show starts, after
\* the serializer had let it through one tick earlier.
C10_Witness ==
    \E p \in Procs :
        /\ Returned(p, "book") /\ outcome[p] = "past_show"
        /\ date_time[req[p].show] = now
        /\ req[p].seat = SeatA1

\* C11: a Cancel by the owner of a 'booked' booking whose show has date_time <= now
\* when the view or the service looks at the clock fails with the past-show error
\* and leaves the booking 'booked'; a Cancel goes on to its UPDATE only from a
\* check made while date_time > now.
C11_PastCancel ==
    [][\A p \in Procs :
         /\ ( /\ Enters(p, "cancel")
              /\ req'[p].user = bookings[req'[p].bid].user
              /\ bookings[req'[p].bid].status = "booked"
              /\ date_time[req'[p].show] <= now )
            => /\ pc'[p] = "idle"
               /\ outcome'[p] = "past_show"
               /\ bookings' = bookings
         /\ (pc[p] = "cn_service" /\ Moves(p) /\ date_time[req[p].show] <= now)
            => /\ pc'[p] = "idle"
               /\ outcome'[p] = "past_show"
               /\ bookings' = bookings
         /\ (Moves(p) /\ pc'[p] = "cn_update") => date_time[req'[p].show] > now
         /\ (Moves(p) /\ req'[p].op = "cancel" /\ outcome'[p] = "ok") => pc[p] = "cn_update"]_vars

\* C11 witness: the owner's Cancel refused as past at the very time the show
\* starts, the booking still 'booked'.
C11_Witness ==
    \E p \in Procs :
        /\ Returned(p, "cancel") /\ outcome[p] = "past_show"
        /\ req[p].user = bookings[req[p].bid].user
        /\ date_time[req[p].show] = now
        /\ bookings[req[p].bid].status = "booked"

\* The posted string of the Book that p enters is a well-formed seat string
WellFormed(raw) == ~FieldRejects(raw) /\ ~FormatRejects(FieldValue(raw))

\* The show has at least as many 'booked' rows as seats
AtCapacity(sh) == Cardinality(ActiveRows(sh)) >= total_seats[sh]

\* C12: a Book of a well-formed seat string for a seat without a 'booked' row, on
\* a show still ahead whose 'booked' rows number total_seats or more when the
\* serializer or the service counts them, fails with the show-full error and
\* adds no row.
C12_ShowFull ==
    [][\A p \in Procs :
         /\ ( /\ Enters(p, "book")
              /\ WellFormed(req'[p].seat)
              /\ date_time[req'[p].show] > now
              /\ RowsWith(req'[p].show, Upper(Strip(req'[p].seat)), "booked") = {}
              /\ AtCapacity(req'[p].show) )
            => /\ pc'[p] = "idle"
               /\ outcome'[p] = "show_full"
               /\ bookings' = bookings /\ pending' = pending
         /\ ( /\ pc[p] = "bk_check" /\ Moves(p)
              /\ date_time[req[p].show] > now
              /\ AtCapacity(req[p].show) )
            => /\ pc'[p] = "idle"
               /\ outcome'[p] = "show_full"
               /\ bookings' = bookings /\ pending' = pending]_vars

\* C12 witness: a Book of a seat nobody holds was refused as full on a show
\* still ahead whose other seat is 'booked'.
C12_Witness ==
    \E p \in Procs :
        /\ Returned(p, "book") /\ outcome[p] = "show_full"
        /\ req[p].seat = NormalizedSeat(req[p].seat)
        /\ RowsWith(req[p].show, req[p].seat, "booked") = {}
        /\ AtCapacity(req[p].show)
        /\ date_time[req[p].show] > now

\* C13: a Book for a (show, seat) that has a 'booked' row returns an error at
\* once (seat-taken, or past-show when the show has started), whoever asks, the
\* holder of the seat included; and no step of a Book made while the seat has a
\* 'booked' row returns a booking or adds a row.
C13_HeldSeatRefused ==
    [][\A p \in Procs :
         /\ ( /\ Enters(p, "book")
              /\ RowsWith(req'[p].show, Upper(Strip(req'[p].seat)), "booked") # {} )
            => /\ pc'[p] = "idle"
               /\ outcome'[p] \in {"seat_taken", "past_show"}
               /\ bookings' = bookings /\ pending' = pending
         /\ ( /\ pc[p] \in BookPcs /\ Moves(p)
              /\ RowsWith(req[p].show, req[p].seat, "booked") # {} )
            => /\ outcome'[p] # "ok"
               /\ bookings' = bookings /\ pending' = pending]_vars

\* C13 witness: the user who holds the seat asked for it again on a show with
\* seats to spare and was refused.
C13_Witness ==
    \E p \in Procs : \E i \in Ids :
        /\ Returned(p, "book") /\ outcome[p] = "seat_taken"
        /\ bookings[i].status = "booked"
        /\ bookings[i].show = req[p].show
        /\ bookings[i].seat_number = Upper(Strip(req[p].seat))
        /\ bookings[i].user = req[p].user
        /\ ~AtCapacity(req[p].show)

\* The elements of a list
Elements(list) == {list[i] : i \in DOMAIN list}

\* Some row of show sh and seat is 'booked'
HasActive(sh, seat) ==
    \E i \in Ids : /\ bookings[i].show = sh
                    /\ bookings[i].seat_number = seat
                    /\ bookings[i].status = "booked"

\* C14: in every state the seats that get_booked_seat_numbers lists for a show
\* are exactly the seats with a 'booked' row of that show, and the look-up of a
\* seat's 'booked' row finds one iff there is one: seats whose only rows are
\* 'cancelled' and seats booked on the other show are not listed.
C14_BookedSeats ==
    \A sh \in Shows :
        /\ Elements(get_booked_seat_numbers(sh)) = {seat \in Seats : HasActive(sh, seat)}
        /\ \A seat \in Seats : RowsWith(sh, seat, "booked") # {} <=> HasActive(sh, seat)

\* C14 witness: seat A1 was booked and cancelled on show 1 and is booked on
\* show 2; it is listed for show 2 only.
C14_Witness ==
    /\ bookings = <<Row("alice", 1, SeatA1, "cancelled"), Row("bob", 2, SeatA1, "booked")>>
    /\ get_booked_seat_numbers(1) = <<>>
    /\ get_booked_seat_numbers(2) = <<SeatA1>>

\* The step ends a call op of some request with success, for show sh
Succeeds(op, sh) ==
    \E p \in Procs :
        /\ Moves(p) /\ pc'[p] = "idle" /\ outcome'[p] = "ok"
        /\ req'[p].op = op /\ req'[p].show = sh

\* C15 (as claimed): in every state available_seats of a show is total_seats minus the number
\* of its 'booked' rows (total_seats while the show has no rows); the step that
\* ends a successful Book lowers it by exactly 1, the step that ends a successful
\* Cancel raises it by exactly 1, and no other step (a failed Book or Cancel
\* among them) changes it.
C15_AvailableSeats ==
    /\ [](\A sh \in Shows :
            /\ available_seats(sh) = total_seats[sh] - Len(get_booked_seat_numbers(sh))
            /\ (\A i \in Ids : bookings[i].show # sh) => available_seats(sh) = total_seats[sh])
    /\ [][\A sh \in Shows :
            available_seats(sh)' =
                IF Succeeds("book", sh) THEN available_seats(sh) - 1
                ELSE IF Succeeds("cancel", sh) THEN available_seats(sh) + 1
                ELSE available_seats(sh)]_vars

\* C16 (as claimed): every dictionary get_seat_availability returns has
\* available_seats = total_seats - len(booked_seats) and is_fully_booked iff
\* available_seats <= 0, also when a Book or Cancel commits during the call.
C16_AvailabilityConsistent ==
    \A p \in Procs :
        Returned(p, "avail") =>
            /\ avail[p].available_seats = avail[p].total_seats - Len(avail[p].booked_seats)
            /\ avail[p].is_fully_booked <=> avail[p].available_seats <= 0

\* C17: the step that ends a successful Book adds exactly one row to the table,
\* 'booked', of the requesting user, of the requested show, with the posted seat
\* string trimmed and upper-cased as its seat, and that row can_be_cancelled
\* whenever the show is still ahead.
C17_BookCreatesActive ==
    [][\A p \in Procs :
         (Moves(p) /\ req'[p].op = "book" /\ outcome'[p] = "ok") =>
            /\ req[p].user = req'[p].user /\ req[p].show = req'[p].show
            /\ bookings' = Append(bookings,
                                  Row(req[p].user, req[p].show, Upper(Strip(seatInput)), "booked"))
            /\ req'[p].bid = Len(bookings')
            /\ ( date_time[req[p].show] > now
                  => can_be_cancelled(req[p].show, bookings[req[p].bid].status) )']_vars

\* C17 witness: "a1" was posted for show 2 and alice holds the new 'booked' row
\* of seat "A1", which can be cancelled.
C17_Witness ==
    /\ seatInput = <<"a", "1">>
    /\ IsCall(1, "book", "alice", 2, SeatA1) /\ outcome[1] = "ok"
    /\ bookings[req[1].bid] = Row("alice", 2, SeatA1, "booked")
    /\ can_be_cancelled(2, bookings[req[1].bid].status)

\* C18: no step of a Book or a Cancel removes a row: the table never gets
\* shorter, every row keeps its id, user, show and seat, and the step that ends a
\* successful Cancel leaves the table as long as it was, with the target row
\* 'cancelled'.
C18_NeverDeleted ==
    [][/\ Len(bookings') >= Len(bookings)
       /\ \A i \in Ids :
             /\ bookings'[i].user = bookings[i].user
             /\ bookings'[i].show = bookings[i].show
             /\ bookings'[i].seat_number = bookings[i].seat_number
       /\ \A p \in Procs :
             (Moves(p) /\ req'[p].op = "cancel" /\ outcome'[p] = "ok") =>
                /\ Len(bookings') = Len(bookings)
                /\ bookings'[req'[p].bid].status = "cancelled"]_vars

\* C18 witness: a booking was cancelled and its seat booked again; the cancelled
\* row is still in the table, before the new one.
C18_Witness ==
    \E p \in Procs :
        /\ Returned(p, "book") /\ outcome[p] = "ok"
        /\ Len(bookings) = 2
        /\ bookings[1].status = "cancelled"
        /\ bookings[2].status = "booked"
        /\ bookings[1].seat_number = bookings[2].seat_number

\* C19 (as claimed): a Book or Cancel call that is still waiting for a lock when
\* the clock advances (its bounded wait is over) returns the booking-busy error.
C19_BusyAfterWait ==
    \A p \in Procs : (pc[p] = "idle" /\ waited[p]) => outcome[p] = "busy"

\* C20 (as claimed): a Book that fails, whatever was posted, is answered 400 and
\* never 500, and a failed Cancel of one's own booking likewise.
C20_FailureIs400 ==
    \A p \in Procs :
        ( /\ pc[p] = "idle"
          /\ req[p].op \in {"book", "cancel"}
          /\ outcome[p] \notin {"ok", "unauthorized"} )
        => HttpStatus(req[p].op, outcome[p]) = 400

\* C21 (as claimed): from the moment a Cancel has read its booking's status until
\* it has written 'cancelled', no other Book or Cancel of the same show and seat
\* commits a change to the table.
C21_CancelAtomic ==
    [][\A p \in Procs : \A q \in Procs \ {p} :
         ( /\ pc[p] \in CancelPcs
           /\ Moves(q)
           /\ req[q].show = req[p].show /\ req[q].seat = req[p].seat )
         => bookings' = bookings]_vars

\* C22 (as claimed): a Book that finds its seat with a 'booked' row on a show
\* still ahead that is also at capacity is refused with the seat-taken error,
\* not the show-full error, by the serializer and by the service alike.
C22_SeatTakenBeforeFull ==
    [][\A p \in Procs :
         ( /\ Moves(p) /\ req'[p].op = "book" /\ pc[p] \in {"idle", "bk_check"}
           /\ WellFormed(req'[p].seat)
           /\ date_time[req'[p].show] > now
           /\ RowsWith(req'[p].show, Upper(Strip(req'[p].seat)), "booked") # {}
           /\ AtCapacity(req'[p].show) )
         => outcome'[p] # "show_full"]_vars

\* C28 (as claimed): of two Cancel calls on one booking at most one returns
\* success.
C28_OneCancelWins ==
    \A p \in Procs : \A q \in Procs \ {p} :
        ( /\ Returned(p, "cancel") /\ Returned(q, "cancel")
          /\ req[p].bid = req[q].bid )
        => ~(outcome[p] = "ok" /\ outcome[q] = "ok")

\* The row letter and the seat number a stored seat key denotes
SeatOf(seat) == <<seat[1], ToInt(Tail(seat))>>

\* C29 (as claimed): no two 'booked' rows of one show denote the same row letter
\* and seat number.
C29_OneKeyPerSeat ==
    \A i \in Ids : \A j \in Ids \ {i} :
        ( /\ bookings[i].show = bookings[j].show
          /\ bookings[i].status = "booked" /\ bookings[j].status = "booked" )
        => SeatOf(bookings[i].seat_number) # SeatOf(bookings[j].seat_number)

\* C24: the step that ends a Book or a Cancel with an error leaves every row of
\* the table as it was and leaves no uncommitted row of the call behind; the only
\* steps of a call that change the table are those that end it with success.
C24_FailureChangesNothing ==
    [][\A p \in Procs :
         /\ (Moves(p) /\ pc'[p] = "idle" /\ outcome'[p] # "ok")
            => bookings' = bookings /\ pending'[p] = NoRow
         /\ (Moves(p) /\ bookings' # bookings)
            => pc'[p] = "idle" /\ outcome'[p] = "ok"]_vars

\* C24 witness: a Cancel the storage refused returned an error and its booking
\* is still 'booked'.
C24_Witness ==
    \E p \in Procs :
        /\ Returned(p, "cancel") /\ outcome[p] = "failed"
        /\ bookings[req[p].bid].status = "booked"

\* C25: a request that is not inside a call holds no row lock and no uncommitted
\* row, so whatever a call waits for is held by a Book still under way.
C25_NoLockAfterReturn ==
    /\ \A p \in Procs : pc[p] = "idle" => rowlock[p] = 0 /\ pending[p] = NoRow
    /\ \A q \in Procs :
          Blocked(q) => \E p \in Procs \ {q} :
                           /\ pc[p] \in BookPcs
                           /\ rowlock[p] # 0 \/ pending[p] # NoRow

\* C25 witness: a Book that had locked the seat's row with select_for_update()
\* has returned seat-taken and holds nothing.
C25_Witness ==
    \E p \in Procs :
        /\ Returned(p, "book") /\ outcome[p] = "seat_taken" /\ raced[p]
        /\ rowlock[p] = 0 /\ pending[p] = NoRow

\* C27: a row enters the table 'booked', by the step that ends a successful
\* Book; the only change of a row's status is from 'booked' to 'cancelled', by
\* the step that ends a successful Cancel of that row; no step turns a
\* 'cancelled' row 'booked' again.
C27_Lifecycle ==
    [][/\ Len(bookings') >= Len(bookings)
       /\ \A i \in Ids :
             bookings'[i].status # bookings[i].status =>
                /\ bookings[i].status = "booked" /\ bookings'[i].status = "cancelled"
                /\ \E p \in Procs : /\ Moves(p) /\ outcome'[p] = "ok"
                                     /\ req'[p].op = "cancel" /\ req'[p].bid = i
       /\ Len(bookings') # Len(bookings) =>
             /\ Len(bookings') = Len(bookings) + 1
             /\ bookings'[Len(bookings')].status = "booked"
             /\ \E p \in Procs : /\ Moves(p) /\ outcome'[p] = "ok"
                                  /\ req'[p].op = "book" /\ req'[p].bid = Len(bookings')]_vars

\* C27 witness: a seat was booked, cancelled and booked again; the Cancel of the
\* first row, tried once more, was refused and the row is still 'cancelled'
\* beside the new 'booked' row.
C27_Witness ==
    \E p \in Procs : \E j \in Ids :
        /\ Returned(p, "cancel") /\ outcome[p] = "already_cancelled"
        /\ bookings[req[p].bid].status = "cancelled"
        /\ j > req[p].bid
        /\ bookings[j].status = "booked"
        /\ bookings[j].seat_number = bookings[req[p].bid].seat_number

\* C23: a direct save of a 'booked' row for a (show, seat) that has a 'booked'
\* row is refused by save() itself, by full_clean() or by the unique index,
\* without any row added or changed; so also with saves that bypass
\* create_booking no (show, seat) has two 'booked' rows.
C23_StorageRejects ==
    /\ [](\A i \in Ids : \A j \in Ids \ {i} :
            ~( /\ bookings[i].show = bookings[j].show
               /\ bookings[i].seat_number = bookings[j].seat_number
               /\ bookings[i].status = "booked" /\ bookings[j].status = "booked" ))
    /\ [][\A p \in Procs :
            ( /\ Moves(p) /\ req'[p].op = "save"
              /\ RowsWith(req'[p].show, req'[p].seat, "booked") # {} )
            => /\ pc'[p] = "idle"
               /\ outcome'[p] \in {"invalid_data", "failed"}
               /\ bookings' = bookings]_vars

\* C23 witness: a direct save that had passed full_clean() was refused by the
\* unique index, the seat being 'booked' by the Book that committed meanwhile.
C23_Witness ==
    \E p \in Procs :
        /\ Returned(p, "save") /\ outcome[p] = "failed"
        /\ Cardinality(RowsWith(req[p].show, req[p].seat, "booked")) = 1

\* Some other request has a call under way, or an uncommitted row, for the same
\* show and seat as p's call
SameSeatRival(p) ==
    \E q \in Procs \ {p} :
        /\ pc[q] # "idle"
        /\ req[q].show = req[p].show /\ req[q].seat = req[p].seat

\* C26: a Book never waits for a request that is about another seat, and a Book
\* is refused only because of its own seat string, because of the clock
\* (past-show), because the show has no seat left (show-full), or because of a
\* 'booked' row of its own seat: with room for both, Books of different seats of
\* one show do not hinder each other.
C26_OtherSeatsDoNotInterfere ==
    /\ [](\A p \in Procs : Blocked(p) => SameSeatRival(p))
    /\ [][\A p \in Procs :
            (Moves(p) /\ req'[p].op = "book" /\ pc'[p] = "idle" /\ outcome'[p] # "ok") =>
               \/ outcome'[p] \in {"invalid_seat", "server_error"} /\ pc[p] = "idle"
               \/ outcome'[p] = "past_show" /\ date_time[req'[p].show] <= now
               \/ outcome'[p] = "show_full" /\ AtCapacity(req'[p].show)
               \/ /\ outcome'[p] \in {"seat_taken", "invalid_data", "failed"}
                  /\ RowsWith(req'[p].show, Upper(Strip(req'[p].seat)), "booked") # {}]_vars

\* C26 witness: Books of A1 and of B2 on show 2 have both inserted their rows
\* and neither has committed yet.
C26_Witness ==
    /\ pc[1] = "bk_commit" /\ pc[2] = "bk_commit"
    /\ req[1].show = req[2].show
    /\ req[1].seat # req[2].seat
    /\ pending[1] # NoRow /\ pending[2] # NoRow

\* C30: a successful Cancel changes only the status of its target booking: the
\* owner, show, seat and reference code of that booking and every field of every
\* other booking are as before; every booking carries a non-empty reference code,
\* given to it when it was created and never changed, and no two bookings share
\* a reference code.
C30_CancelTouchesStatusOnly ==
    /\ [](/\ Len(reference) = Len(bookings)
          /\ \A i \in Ids :
                 /\ reference[i] # 0
                 /\ \A j \in Ids \ {i} : reference[j] # reference[i])
    /\ [][/\ Len(bookings') >= Len(bookings)
          /\ \A i \in Ids : reference'[i] = reference[i]
          /\ \A p \in Procs :
                 (Moves(p) /\ pc'[p] = "idle" /\ outcome'[p] = "ok" /\ req'[p].op = "cancel")
                 => /\ bookings' = [bookings EXCEPT ![req[p].bid].status = "cancelled"]
                    /\ reference' = reference]_vars

\* A Cancel has succeeded on one of two bookings, the other is still 'booked'
C30_Witness ==
    \E p \in Procs :
        /\ Returned(p, "cancel") /\ outcome[p] = "ok"
        /\ Len(bookings) = 2
        /\ bookings[req[p].bid].status = "cancelled"
        /\ \E i \in Ids \ {req[p].bid} : bookings[i].status = "booked"
        /\ reference[1] # reference[2]

====
